---- MODULE Spec2Model ----
(***************************************************************************)
(* Mnemonic Hub: the browser clients (App.tsx, BuyerPortal,                *)
(* SellerDashboard) and the Google Sheets script of architecture.md        *)
(* (doGet, doPost, runInventoryEngine).                                     *)
(*                                                                         *)
(* architecture.md holds two editions of the script; scriptVersion says    *)
(* which one is deployed ("v1": lines 12-114, "v2": lines 122-266).        *)
(***************************************************************************)
EXTENDS Integers, Sequences, FiniteSets, TLC

VARIABLES
    scriptVersion,  \* edition of the Apps Script that is deployed
    master,         \* sheet Master_Inventory, data rows
    orderSheet,     \* sheet Orders, data rows
    inventory,      \* sheet Inventory, data rows written by the engine
    emptyRangeThrows, \* whether the Sheets service rejects a range of zero rows
    engineLog,      \* outcome of every runInventoryEngine call so far
    items,          \* per client: App state items (and its localStorage copy)
    orders,         \* per client: App state orders (and its localStorage copy)
    waitlistConfig, \* per client: App state waitlistConfig
    placedScreen,   \* per client: BuyerPortal state placed is set
    isLoadingItems, \* per client: App state isLoadingItems
    hasAttemptedInitialSync, \* per client: the ref of that name
    pushes,         \* POST bodies sent by saveAndSync and not yet handled by doPost
    gets,           \* per client: the GET requests of fetchInventoryFromSheets in flight
    now,            \* the clock: number of client operations so far
    held,           \* per client: the snapshot its state was last replaced by
    placed,         \* the lines placed by handleSubmit, as decided locally
    groupedView,    \* the groupedOrders the dashboard has computed, if it has
    webhookUrl,     \* per client: App state webhookUrl
    activeMnemonic, \* per client: App state activeMnemonic, "" for null
    twinOrders      \* the Orders sheet of a twin ledger that was sent the other AppStatus

serverVars == <<scriptVersion, master, orderSheet, inventory, emptyRangeThrows, twinOrders>>
clientVars == <<items, orders, waitlistConfig, placedScreen>>
loadVars   == <<isLoadingItems, hasAttemptedInitialSync>>
histVars   == <<held, placed>>
logVars    == <<engineLog, groupedView>>
navVars    == <<webhookUrl, activeMnemonic>>

vars == <<scriptVersion, master, orderSheet, inventory, emptyRangeThrows, engineLog,
          items, orders, waitlistConfig, isLoadingItems, hasAttemptedInitialSync,
          pushes, gets, now, held, placed, twinOrders, placedScreen, groupedView,
          webhookUrl, activeMnemonic>>

----------------------------------------------------------------------------
(* Bounds *)

MaxStock == 2   \* largest InitialQuantity of an item and largest Quantity of a line
MaxLines == 2   \* most rows of the Orders sheet
MaxItems == 2   \* most rows of Master_Inventory
MaxRuns  == 2   \* most engine runs on one input
MaxOps   == 3   \* most client operations that change the item set or the order log
MaxInflight == 1 \* most snapshot fetches one client has in flight
MaxOverlap == 2 \* most snapshot fetches in flight when fetches overlap

Clients == {"c1", "c2"}

Mnemonics  == {"A", "B"}
Timestamps == {1, 2}

\* The mnemonics as stored: a mnemonic can be held in the case it was typed
\* in (bulk add keeps ni.mnemonic as given).
OrderMnemonics == Mnemonics \cup {"a"}
Versions   == {"v1", "v2"}

SeqUpTo(S, n) == UNION {[1..k -> S] : k \in 0..n}

\* The rows of Master_Inventory an item set of the model can make.
MasterRows == [Mnemonic : Mnemonics, InitialQuantity : 0..MaxStock, AllowUpsell : {FALSE}]

----------------------------------------------------------------------------
(* runInventoryEngine *)

\* stockLevels = {} then one assignment stockLevels[row[4]] = {...} per master
\* row: a later row with the same mnemonic overwrites the earlier one.
StockLevels(m) ==
    [k \in {m[i].Mnemonic : i \in DOMAIN m} |->
        LET last == CHOOSE i \in DOMAIN m :
                        /\ m[i].Mnemonic = k
                        /\ \A j \in DOMAIN m : m[j].Mnemonic = k => j <= i
        IN [initial   |-> m[last].InitialQuantity,
            remaining |-> m[last].InitialQuantity,
            sold      |-> 0,
            waitlisted |-> 0]]

\* Object.keys(stockLevels): the keys in the order of their first insertion.
RECURSIVE StockKeys(_)
StockKeys(m) ==
    IF m = <<>> THEN <<>>
    ELSE LET front == StockKeys(SubSeq(m, 1, Len(m) - 1))
             k == m[Len(m)].Mnemonic
         IN IF \E i \in DOMAIN front : front[i] = k THEN front ELSE Append(front, k)

\* The body of orderData.forEach for one row, edition 1 (lines 95-106):
\* a row whose mnemonic has no stock entry is left as it is.
AllocateLineV1(st, order) ==
    LET m == order.Mnemonic
        qty == order.Quantity
    IN IF m \in DOMAIN st
       THEN IF st[m].remaining >= qty
            THEN [stock |-> [st EXCEPT ![m].remaining = @ - qty, ![m].sold = @ + qty],
                  order |-> [order EXCEPT !.Status = "Confirmed"]]
            ELSE [stock |-> [st EXCEPT ![m].waitlisted = @ + qty],
                  order |-> [order EXCEPT !.Status = "Waitlisted"]]
       ELSE [stock |-> st, order |-> order]

\* The body of orderData.forEach for one row, edition 2 (lines 243-255).
AllocateLineV2(st, order) ==
    LET m == order.Mnemonic
        qty == order.Quantity
    IN IF m \in DOMAIN st /\ st[m].remaining >= qty
       THEN [stock |-> [st EXCEPT ![m].remaining = @ - qty, ![m].sold = @ + qty],
             order |-> [order EXCEPT !.Status = "Confirmed"]]
       ELSE [stock |-> IF m \in DOMAIN st
                       THEN [st EXCEPT ![m].waitlisted = @ + qty]
                       ELSE st,
             order |-> [order EXCEPT !.Status = "Waitlisted"]]

\* Mutant: confirms a line whenever any stock is left, not only when the
\* whole quantity fits.
AllocateLineAnyStock(v, st, order) ==
    LET m == order.Mnemonic
        qty == order.Quantity
    IN IF m \in DOMAIN st /\ st[m].remaining > 0
       THEN [stock |-> [st EXCEPT ![m].remaining = @ - qty, ![m].sold = @ + qty],
             order |-> [order EXCEPT !.Status = "Confirmed"]]
       ELSE IF v = "v1" THEN AllocateLineV1(st, order) ELSE AllocateLineV2(st, order)

\* Mutant: a confirmed line lowers remaining but is not added to sold.
AllocateLineSoldLost(v, st, order) ==
    LET r == IF v = "v1" THEN AllocateLineV1(st, order) ELSE AllocateLineV2(st, order)
        m == order.Mnemonic
    IN IF r.order.Status = "Confirmed" /\ m \in DOMAIN st
       THEN [r EXCEPT !.stock[m].sold = st[m].sold]
       ELSE r

\* Mutant: a row the engine has already decided is skipped on a later run.
AllocateLineSkipDecided(v, st, order) ==
    IF order.Status \in {"Confirmed", "Waitlisted"}
    THEN [stock |-> st, order |-> order]
    ELSE IF v = "v1" THEN AllocateLineV1(st, order) ELSE AllocateLineV2(st, order)

AllocateLine(v, st, order) ==
    IF v = "v1" THEN AllocateLineV1(st, order) ELSE AllocateLineV2(st, order)

\* orderData.forEach over the first k rows, in sheet order: the stock levels
\* and the rewritten rows after row k.
RECURSIVE Allocate(_, _, _, _)
Allocate(v, m, rows, k) ==
    IF k = 0 THEN [stock |-> StockLevels(m), orders |-> <<>>]
    ELSE LET prev == Allocate(v, m, rows, k - 1)
             step == AllocateLine(v, prev.stock, rows[k])
         IN [stock |-> step.stock, orders |-> Append(prev.orders, step.order)]

\* inventorySheet.clear() and one appended row per key of stockLevels.
InventoryRows(m, st) ==
    LET keys == StockKeys(m)
    IN [i \in DOMAIN keys |->
          [Mnemonic         |-> keys[i],
           InitialQuantity  |-> st[keys[i]].initial,
           ConfirmedSold    |-> st[keys[i]].sold,
           AvailableBalance |-> st[keys[i]].remaining,
           WaitlistDemand   |-> st[keys[i]].waitlisted]]

\* runInventoryEngine(ss). It returns before doing anything when
\* Master_Inventory has no data row. orderSheet.getRange(2, 1, 0, n) on an
\* Orders sheet without data rows is a call of the Sheets service the script
\* does not guard: throws says whether the service rejects it (the exception
\* ends the run, doPost catches it) or hands back an empty range.
RunInventoryEngine(v, m, rows, inv, throws) ==
    IF Len(m) = 0
    THEN [outcome |-> "skipped", orders |-> rows, inventory |-> inv]
    ELSE IF Len(rows) = 0 /\ throws
    THEN [outcome |-> "threw", orders |-> rows, inventory |-> inv]
    ELSE LET res == Allocate(v, m, rows, Len(rows))
         IN [outcome   |-> "done",
             orders    |-> res.orders,
             inventory |-> InventoryRows(m, res.stock)]

----------------------------------------------------------------------------
(* doGet *)

\* doGet, edition 1 (lines 17-60): every data row of Inventory and Orders.
DoGetV1(inv, rows) ==
    [Inventory |-> [i \in DOMAIN inv |->
                      [Mnemonic         |-> inv[i].Mnemonic,
                       InitialQuantity  |-> inv[i].InitialQuantity,
                       ConfirmedSold    |-> inv[i].ConfirmedSold,
                       AvailableBalance |-> inv[i].AvailableBalance,
                       WaitlistDemand   |-> inv[i].WaitlistDemand]],
     Orders    |-> [i \in DOMAIN rows |->
                      [OrderID   |-> rows[i].OrderID,
                       Timestamp |-> rows[i].Timestamp,
                       Mnemonic  |-> rows[i].Mnemonic,
                       Quantity  |-> rows[i].Quantity,
                       Status    |-> rows[i].Status]]]

\* doGet, edition 2 (lines 133-182): getValues().slice(2) leaves out the
\* header row and the first data row of Inventory.
DoGetV2(inv, rows) ==
    [Inventory |-> [i \in 1..(IF Len(inv) > 0 THEN Len(inv) - 1 ELSE 0) |->
                      [mnemonic   |-> inv[i + 1].Mnemonic,
                       initial    |-> inv[i + 1].InitialQuantity,
                       sold       |-> inv[i + 1].ConfirmedSold,
                       quantity   |-> inv[i + 1].AvailableBalance,
                       waitlisted |-> inv[i + 1].WaitlistDemand]],
     Orders    |-> [i \in DOMAIN rows |->
                      [OrderID   |-> rows[i].OrderID,
                       Timestamp |-> rows[i].Timestamp,
                       Mnemonic  |-> rows[i].Mnemonic,
                       Quantity  |-> rows[i].Quantity,
                       AppStatus |-> rows[i].Status]]]

DoGetSnapshot(v, inv, rows) ==
    IF v = "v1" THEN DoGetV1(inv, rows) ELSE DoGetV2(inv, rows)

EmptySnapshot == [Inventory |-> <<>>, Orders |-> <<>>]

----------------------------------------------------------------------------
(* fetchInventoryFromSheets: the mapping of a snapshot *)

\* String.prototype.toUpperCase on the mnemonics of the model.
ToUpper(s) ==
    CASE s = "a" -> "A"
      [] s = "b" -> "B"
      [] s = "x" -> "X"
      [] OTHER   -> s

\* statusRaw.includes('waitlist') ? 'waitlisted' : 'confirmed', statusRaw the
\* lower-cased Status || AppStatus of the row.
MapStatus(raw) ==
    IF raw \in {"Waitlisted", "waitlisted"} THEN "waitlisted" ELSE "confirmed"

\* The itemId of a line that carries none: '' (App.tsx line 121).
NoId == [src |-> "none", n |-> 0, m |-> ""]

RawField(r, upper, lower) ==
    IF upper \in DOMAIN r THEN r[upper] ELSE r[lower]

\* App.tsx lines 95-109. The rows of both editions carry a mnemonic, so the
\* filter keeps them all and id is the row's mnemonic as delivered. They carry
\* no Price, so the price is parseFloat(0).
MapItems(rawItems) ==
    [i \in DOMAIN rawItems |->
       [id          |-> [src |-> "sync", n |-> 0, m |-> RawField(rawItems[i], "Mnemonic", "mnemonic")],
        mnemonic    |-> ToUpper(RawField(rawItems[i], "Mnemonic", "mnemonic")),
        price       |-> 0,
        quantity    |-> RawField(rawItems[i], "AvailableBalance", "quantity"),
        allowUpsell |-> FALSE]]

\* App.tsx lines 112-131.
MapOrders(rawOrders) ==
    [i \in DOMAIN rawOrders |->
       [id        |-> [src |-> "sync", a |-> rawOrders[i].OrderID, idx |-> i - 1],
        orderId   |-> rawOrders[i].OrderID,
        itemId    |-> NoId,
        mnemonic  |-> ToUpper(rawOrders[i].Mnemonic),
        quantity  |-> rawOrders[i].Quantity,
        timestamp |-> rawOrders[i].Timestamp,
        status    |-> MapStatus(RawField(rawOrders[i], "Status", "AppStatus"))]]

----------------------------------------------------------------------------
(* saveAndSync and doPost *)

\* The body of the POST of saveAndSync (App.tsx lines 209-231).
Payload(newItems, newOrders) ==
    [Inventory |-> [i \in DOMAIN newItems |->
                      [Mnemonic        |-> newItems[i].mnemonic,
                       InitialQuantity |-> newItems[i].quantity,
                       AllowUpsell     |-> newItems[i].allowUpsell]],
     Orders    |-> [i \in DOMAIN newOrders |->
                      [OrderID   |-> newOrders[i].orderId,
                       Timestamp |-> newOrders[i].timestamp,
                       Mnemonic  |-> newOrders[i].mnemonic,
                       Quantity  |-> newOrders[i].quantity,
                       AppStatus |-> newOrders[i].status]]]

\* The Status cell of an appended row: o.AppStatus || "Processing" in
\* edition 1 (line 75), "Processing" in edition 2 (line 215).
PostedStatus(v, o) == IF v = "v1" THEN o.AppStatus ELSE "Processing"

\* Mutant: every posted order is appended, logged already or not.
AppendAllOrders(v, rows, existingIds, posted) ==
    rows \o [i \in DOMAIN posted |->
               [OrderID   |-> posted[i].OrderID,
                Timestamp |-> posted[i].Timestamp,
                Mnemonic  |-> posted[i].Mnemonic,
                Quantity  |-> posted[i].Quantity,
                Status    |-> PostedStatus(v, posted[i])]]

\* payload.Orders.forEach: a row is appended for every order whose OrderID was
\* not in the sheet when doPost began (existingIds is read once).
RECURSIVE AppendNewOrders(_, _, _, _)
AppendNewOrders(v, rows, existingIds, posted) ==
    IF posted = <<>> THEN rows
    ELSE LET o == Head(posted)
             next == IF o.OrderID \in existingIds THEN rows
                     ELSE Append(rows, [OrderID   |-> o.OrderID,
                                        Timestamp |-> o.Timestamp,
                                        Mnemonic  |-> o.Mnemonic,
                                        Quantity  |-> o.Quantity,
                                        Status    |-> PostedStatus(v, o)])
         IN AppendNewOrders(v, next, existingIds, Tail(posted))

\* doPost: Master_Inventory is rewritten from the payload, the new orders are
\* appended, and the engine runs. The result is the three sheets afterwards.
DoPostResult(v, rows, inv, throws, p) ==
    LET newMaster == p.Inventory
        existingIds == {rows[i].OrderID : i \in DOMAIN rows}
        newRows == AppendNewOrders(v, rows, existingIds, p.Orders)
        run == RunInventoryEngine(v, newMaster, newRows, inv, throws)
    IN [master |-> newMaster, orders |-> run.orders, inventory |-> run.inventory]

\* The same payload with the other AppStatus on every line.
OtherStatus(p) ==
    [p EXCEPT !.Orders = [i \in DOMAIN p.Orders |->
        [p.Orders[i] EXCEPT !.AppStatus =
            IF @ = "confirmed" THEN "waitlisted" ELSE "confirmed"]]]

----------------------------------------------------------------------------
(* The clients *)

WaitlistDefault == 5

\* The dashboard has not computed groupedOrders.
NotRendered == [rendered |-> FALSE, version |-> "", groups |-> <<>>]

\* A GET in flight: has says whether the script has answered, snap is the
\* answer, err whether the answer is the error reply of doGet's catch, and
\* superseded whether the result of a fetch started later has been applied.
NoFetch == [has |-> FALSE, snap |-> EmptySnapshot, err |-> FALSE, superseded |-> FALSE]

\* The values of webhookUrl: none, the URL of the deployed script, and a text
\* that does not start with http.
HubUrl == "http"

WebhookUrls == {"", HubUrl, "hub"}

\* url.startsWith('http') of fetchInventoryFromSheets (line 54).
IsHttp(url) == url = HubUrl

\* The state of App after mount with nothing in localStorage but, possibly,
\* the webhook URL.
AppStart ==
    /\ items = [c \in Clients |-> <<>>]
    /\ orders = [c \in Clients |-> <<>>]
    /\ waitlistConfig = [c \in Clients |-> [maxSize |-> WaitlistDefault]]
    /\ placedScreen = [c \in Clients |-> FALSE]
    /\ isLoadingItems = [c \in Clients |-> FALSE]
    /\ hasAttemptedInitialSync = [c \in Clients |-> FALSE]
    /\ pushes = {}
    /\ gets = [c \in Clients |-> <<>>]
    /\ now = 0
    /\ held = [c \in Clients |-> NoFetch]
    /\ placed = {}
    /\ groupedView = NotRendered
    /\ activeMnemonic = [c \in Clients |-> ""]

ClientsStart ==
    /\ AppStart
    /\ webhookUrl = [c \in Clients |-> HubUrl]

Init ==
    /\ scriptVersion \in Versions
    /\ emptyRangeThrows \in BOOLEAN
    /\ master = <<>>
    /\ orderSheet = <<>>
    /\ inventory = <<>>
    /\ twinOrders = <<>>
    /\ engineLog = <<>>
    /\ ClientsStart

\* saveAndSync(newItems, newOrders): the state and its stored copy are
\* replaced and the POST is sent.
SaveAndSync(c, newItems, newOrders) ==
    /\ items' = [items EXCEPT ![c] = newItems]
    /\ orders' = [orders EXCEPT ![c] = newOrders]
    /\ pushes' = IF IsHttp(webhookUrl[c])
                 THEN pushes \cup {Payload(newItems, newOrders)}
                 ELSE pushes
    /\ now' = now + 1
    /\ held' = [held EXCEPT ![c] = NoFetch]

RemoveAt(s, i) == SubSeq(s, 1, i - 1) \o SubSeq(s, i + 1, Len(s))

\* SellerDashboard.handleAddItem: the mnemonic is the first word of the name
\* and a random number, the id is the clock. The price of the form is 1 in
\* every add: nothing but the totals of the dashboard reads it.
AddItem(c) ==
    /\ now < MaxOps
    /\ \E mn \in Mnemonics, q \in 0..MaxStock :
         SaveAndSync(c,
                     Append(items[c], [id          |-> [src |-> "add", n |-> now + 1, m |-> ""],
                                       mnemonic    |-> mn,
                                       price       |-> 1,
                                       quantity    |-> q,
                                       allowUpsell |-> FALSE]),
                     orders[c])
    /\ UNCHANGED <<serverVars, navVars, logVars, waitlistConfig, placedScreen, loadVars, gets, placed>>

\* SellerDashboard.deleteItem.
DeleteItem(c) ==
    /\ now < MaxOps
    /\ \E k \in DOMAIN items[c] :
         SaveAndSync(c, SelectSeq(items[c], LAMBDA i : i.id # items[c][k].id), orders[c])
    /\ UNCHANGED <<serverVars, navVars, logVars, waitlistConfig, placedScreen, loadVars, gets, placed>>

\* The Waitlist Capacity slider of the settings tab: setWaitlistConfig.
WaitlistSizes == {0, WaitlistDefault}

SetWaitlistConfig(c) ==
    /\ \E n \in WaitlistSizes :
         /\ n # waitlistConfig[c].maxSize
         /\ waitlistConfig' = [waitlistConfig EXCEPT ![c] = [maxSize |-> n]]
    /\ UNCHANGED <<serverVars, navVars, logVars, items, orders, placedScreen, loadVars,
                   pushes, gets, now, histVars>>

\* SellerDashboard.toggleUpsell.
ToggleUpsell(c) ==
    /\ now < MaxOps
    /\ \E k \in DOMAIN items[c] :
         SaveAndSync(c,
                     [i \in DOMAIN items[c] |->
                        IF items[c][i].id = items[c][k].id
                        THEN [items[c][i] EXCEPT !.allowUpsell = ~@]
                        ELSE items[c][i]],
                     orders[c])
    /\ UNCHANGED <<serverVars, navVars, logVars, waitlistConfig, placedScreen, loadVars, gets, placed>>

\* items.find(i => i.mnemonic.toUpperCase() === mnemonic.toUpperCase()):
\* the index of the first match, 0 when there is none.
FindByMnemonic(its, mn) ==
    IF \E k \in DOMAIN its : ToUpper(its[k].mnemonic) = ToUpper(mn)
    THEN CHOOSE k \in DOMAIN its :
            /\ ToUpper(its[k].mnemonic) = ToUpper(mn)
            /\ \A j \in DOMAIN its : ToUpper(its[j].mnemonic) = ToUpper(mn) => k <= j
    ELSE 0

\* Mutant: an item out of stock is never offered.
UpsellItemsInStock(c, mn) ==
    {k \in DOMAIN items[c] :
        /\ items[c][k].allowUpsell
        /\ ToUpper(items[c][k].mnemonic) # ToUpper(mn)
        /\ items[c][k].quantity > 0}

\* The items the portal offers as extras (upsellItems).
UpsellItems(c, mn) ==
    {k \in DOMAIN items[c] :
        /\ items[c][k].allowUpsell
        /\ ToUpper(items[c][k].mnemonic) # ToUpper(mn)
        /\ (items[c][k].quantity > 0 \/ waitlistConfig[c].maxSize > 0)}

\* Mutant: a line of an item in stock is confirmed, whatever its quantity.
LocalStatusInStock(it, qty) == IF it.quantity > 0 THEN "confirmed" ELSE "waitlisted"

\* The status handleSubmit gives a line of qty units of item it.
LocalStatus(it, qty) == IF it.quantity >= qty THEN "confirmed" ELSE "waitlisted"

\* Mutant: the quantity is lowered without Math.max.
DecrementUnclamped(its, id, qty) ==
    [i \in DOMAIN its |->
        IF its[i].id = id THEN [its[i] EXCEPT !.quantity = @ - qty] ELSE its[i]]

\* updatedItems.map(...): every item with the line's id is lowered.
Decrement(its, id, qty) ==
    [i \in DOMAIN its |->
        IF its[i].id = id
        THEN [its[i] EXCEPT !.quantity = IF @ - qty > 0 THEN @ - qty ELSE 0]
        ELSE its[i]]

\* orderLines.forEach of handleSubmit over lines k..Len(lines): the items
\* after the decrements. Every line reads its item as it was at submit.
RECURSIVE DecrementAll(_, _)
DecrementAll(its, lines) ==
    IF lines = <<>> THEN its
    ELSE DecrementAll(Decrement(its, Head(lines).item.id, Head(lines).qty), Tail(lines))

NewOrders(lines, orderId, t) ==
    [i \in DOMAIN lines |->
       [id        |-> [src |-> "local", a |-> t, idx |-> i - 1],
        orderId   |-> orderId,
        itemId    |-> lines[i].item.id,
        mnemonic  |-> lines[i].item.mnemonic,
        quantity  |-> lines[i].qty,
        timestamp |-> t,
        status    |-> LocalStatus(lines[i].item, lines[i].qty)]]

\* BuyerPortal.handleSubmit for the item of mnemonic mn, qty units of it and
\* the extras ex (an item index and a quantity each). The order id is new.
Submit(c) ==
    /\ now < MaxOps
    /\ \E mn \in Mnemonics, qty \in 1..MaxStock :
         LET k == FindByMnemonic(items[c], mn) IN
         /\ k # 0
         /\ ~placedScreen[c]
         /\ ~(items[c][k].quantity <= 0 /\ ~(waitlistConfig[c].maxSize > 0))
         /\ \E E \in SUBSET UpsellItems(c, mn) : \E xq \in [E -> 1..MaxStock] :
              LET extras == SelectSeq([i \in DOMAIN items[c] |-> i], LAMBDA i : i \in E)
                  lines == <<[item |-> items[c][k], qty |-> qty]>>
                           \o [i \in DOMAIN extras |->
                                 [item |-> items[c][extras[i]], qty |-> xq[extras[i]]]]
                  t == now + 1
                  new == NewOrders(lines, t, t)
              IN /\ SaveAndSync(c, DecrementAll(items[c], lines), orders[c] \o new)
                 /\ placed' = placed \cup
                       {[client  |-> c,
                         orderId |-> new[i].orderId,
                         idx     |-> i,
                         mnemonic |-> new[i].mnemonic,
                         quantity |-> new[i].quantity,
                         status  |-> new[i].status,
                         seen    |-> lines[i].item.quantity,
                         snap    |-> held[c]] : i \in DOMAIN new}
    /\ placedScreen' = [placedScreen EXCEPT ![c] = TRUE]
    /\ UNCHANGED <<serverVars, navVars, logVars, waitlistConfig, loadVars, gets>>

\* The order link is opened (again): BuyerPortal is mounted anew, so its
\* placed state is null, and handleNavigation starts a fetch.
Reopen(c) ==
    /\ placedScreen[c]
    /\ IsHttp(webhookUrl[c])
    /\ Len(gets[c]) < MaxInflight
    /\ placedScreen' = [placedScreen EXCEPT ![c] = FALSE]
    /\ isLoadingItems' = [isLoadingItems EXCEPT ![c] = TRUE]
    /\ gets' = [gets EXCEPT ![c] = Append(@, NoFetch)]
    /\ UNCHANGED <<serverVars, navVars, logVars, items, orders, waitlistConfig,
                   hasAttemptedInitialSync, pushes, now, histVars>>

\* fetchInventoryFromSheets up to the fetch call: the GET is sent.
FetchStart(c) ==
    /\ IsHttp(webhookUrl[c])
    /\ Len(gets[c]) < MaxInflight
    /\ isLoadingItems' = [isLoadingItems EXCEPT ![c] = TRUE]
    /\ gets' = [gets EXCEPT ![c] = Append(@, NoFetch)]
    /\ UNCHANGED <<serverVars, navVars, logVars, clientVars, hasAttemptedInitialSync,
                   pushes, now, histVars>>

\* The script answers a GET with the sheets as they are now.
DoGet(c) ==
    /\ \E i \in DOMAIN gets[c] :
         /\ ~gets[c][i].has
         /\ gets' = [gets EXCEPT ![c][i] =
                        [@ EXCEPT !.has = TRUE,
                                  !.snap = DoGetSnapshot(scriptVersion, inventory, orderSheet)]]
    /\ UNCHANGED <<serverVars, navVars, logVars, clientVars, loadVars, pushes, now, histVars>>

\* The body of the error reply of doGet's catch as the client reads it:
\* {error} in edition 1 (line 57), {Inventory: [], Orders: [], error} in
\* edition 2 (line 179). rawItems and rawOrders are [] for both.
ErrorReply == EmptySnapshot

\* The script answers a GET from the catch of doGet: a call of the Sheets
\* service threw.
DoGetError(c) ==
    /\ \E i \in DOMAIN gets[c] :
         /\ ~gets[c][i].has
         /\ gets' = [gets EXCEPT ![c][i] =
                        [@ EXCEPT !.has = TRUE, !.snap = ErrorReply, !.err = TRUE]]
    /\ UNCHANGED <<serverVars, navVars, logVars, clientVars, loadVars, pushes, now, histVars>>

\* fetchInventoryFromSheets is called while an earlier call is waiting for
\* its response (handleTabClick on another tab, a second hashchange): a new
\* AbortController and a new GET; the earlier GET goes on.
FetchOverlap(c) ==
    /\ IsHttp(webhookUrl[c])
    /\ gets[c] # <<>>
    /\ Len(gets[c]) < MaxOverlap
    /\ isLoadingItems' = [isLoadingItems EXCEPT ![c] = TRUE]
    /\ gets' = [gets EXCEPT ![c] = Append(@, NoFetch)]
    /\ UNCHANGED <<serverVars, navVars, logVars, clientVars, hasAttemptedInitialSync,
                   pushes, now, histVars>>

\* The GETs left in flight when the response of GET i has been applied: those
\* started before it are superseded.
Supersede(g, i) ==
    LET rest == RemoveAt(g, i)
    IN [j \in DOMAIN rest |-> IF j < i THEN [rest[j] EXCEPT !.superseded = TRUE] ELSE rest[j]]

\* Mutant: the items the browser holds and the snapshot lacks are kept.
FetchedItemsMerge(snap) ==
    LET mapped == MapItems(snap.Inventory)
        local == items[CHOOSE c \in Clients : \A d \in Clients : Len(items[d]) <= Len(items[c])]
    IN mapped \o SelectSeq(local, LAMBDA it :
                     \A k \in DOMAIN mapped : mapped[k].mnemonic # ToUpper(it.mnemonic))

\* What fetchInventoryFromSheets stores on success (lines 133-137).
FetchedItems(snap) == MapItems(snap.Inventory)

\* Mutant: a line the browser already holds keeps the status it has there.
FetchedOrdersKeepLocal(snap) ==
    LET mapped == MapOrders(snap.Orders)
        Local(i) == {o \in UNION {{orders[c][k] : k \in DOMAIN orders[c]} : c \in Clients} :
                        o.orderId = mapped[i].orderId /\ o.mnemonic = mapped[i].mnemonic}
    IN [i \in DOMAIN mapped |->
          IF Local(i) # {}
          THEN [mapped[i] EXCEPT !.status = (CHOOSE o \in Local(i) : TRUE).status]
          ELSE mapped[i]]

FetchedOrders(snap) == MapOrders(snap.Orders)

\* fetchInventoryFromSheets from the response on, the response being a
\* snapshot: items and orders are replaced by the mapped snapshot.
FetchApply(c) ==
    /\ \E i \in DOMAIN gets[c] :
         /\ gets[c][i].has
         /\ items' = [items EXCEPT ![c] = FetchedItems(gets[c][i].snap)]
         /\ orders' = [orders EXCEPT ![c] = FetchedOrders(gets[c][i].snap)]
         /\ held' = [held EXCEPT ![c] = gets[c][i]]
         /\ gets' = [gets EXCEPT ![c] = Supersede(@, i)]
    /\ isLoadingItems' = [isLoadingItems EXCEPT ![c] = FALSE]
    /\ hasAttemptedInitialSync' = [hasAttemptedInitialSync EXCEPT ![c] = TRUE]
    /\ UNCHANGED <<serverVars, navVars, logVars, waitlistConfig, placedScreen, pushes, now, placed>>

\* Mutant: the catch without the finally.
FetchFailNoFinally(c) ==
    /\ \E i \in DOMAIN gets[c] : gets' = [gets EXCEPT ![c] = RemoveAt(@, i)]
    /\ UNCHANGED <<serverVars, navVars, logVars, clientVars, loadVars, pushes, now, histVars>>

\* fetchInventoryFromSheets when the fetch rejects (network error, abort by the
\* timeout) or the response is no snapshot: catch and finally.
FetchFail(c) ==
    /\ \E i \in DOMAIN gets[c] : gets' = [gets EXCEPT ![c] = RemoveAt(@, i)]
    /\ isLoadingItems' = [isLoadingItems EXCEPT ![c] = FALSE]
    /\ hasAttemptedInitialSync' = [hasAttemptedInitialSync EXCEPT ![c] = TRUE]
    /\ UNCHANGED <<serverVars, navVars, logVars, clientVars, pushes, now, histVars>>

\* The script handles one POST. The twin ledger handles the same POST with
\* the other AppStatus on every line.
DoPost ==
    /\ \E p \in pushes :
         LET res == DoPostResult(scriptVersion, orderSheet, inventory, emptyRangeThrows, p)
             twin == DoPostResult(scriptVersion, twinOrders, inventory, emptyRangeThrows,
                                  OtherStatus(p))
         IN /\ master' = res.master
            /\ orderSheet' = res.orders
            /\ inventory' = res.inventory
            /\ twinOrders' = twin.orders
            /\ pushes' = pushes \ {p}
    /\ UNCHANGED <<scriptVersion, emptyRangeThrows, navVars, logVars, clientVars, loadVars,
                   gets, now, histVars>>

\* One browser, used as the seller's dashboard and as the buyer's portal.
Solo == {"c1"}

Next ==
    \/ \E c \in Solo : AddItem(c)
    \/ \E c \in Solo : DeleteItem(c)
    \/ \E c \in Solo : ToggleUpsell(c)
    \/ \E c \in Solo : Submit(c)
    \/ \E c \in Solo : Reopen(c)
    \/ \E c \in Solo : FetchStart(c)
    \/ \E c \in Solo : DoGet(c)
    \/ \E c \in Solo : FetchApply(c)
    \/ \E c \in Solo : FetchFail(c)
    \/ DoPost

Spec == Init /\ [][Next]_vars

\* Two buyers' browsers in front of a ledger the seller has synced once: the
\* sheets are what doPost made of the seller's first POST, of one item.
SyncedLedger ==
    /\ scriptVersion \in Versions
    /\ emptyRangeThrows \in BOOLEAN
    /\ \E seed \in MasterRows :
         LET res == DoPostResult(scriptVersion, <<>>, <<>>, emptyRangeThrows,
                                 [Inventory |-> <<seed>>, Orders |-> <<>>])
         IN /\ master = res.master
            /\ orderSheet = res.orders
            /\ inventory = res.inventory
            /\ twinOrders = res.orders
    /\ engineLog = <<>>

RaceInit ==
    /\ SyncedLedger
    /\ ClientsStart

RaceNext ==
    \/ \E c \in Clients : Submit(c)
    \/ \E c \in Clients : FetchStart(c)
    \/ \E c \in Clients : DoGet(c)
    \/ \E c \in Clients : FetchApply(c)
    \/ \E c \in Clients : FetchFail(c)
    \/ DoPost

RaceSpec == RaceInit /\ [][RaceNext]_vars

\* One buyer's browser in front of the synced ledger; its fetches may overlap
\* and may be answered by doGet's error reply.
FetchNext ==
    \/ \E c \in Solo : Submit(c)
    \/ \E c \in Solo : FetchStart(c)
    \/ \E c \in Solo : FetchOverlap(c)
    \/ \E c \in Solo : DoGet(c)
    \/ \E c \in Solo : DoGetError(c)
    \/ \E c \in Solo : FetchApply(c)
    \/ \E c \in Solo : FetchFail(c)
    \/ DoPost

FetchSpec == RaceInit /\ [][FetchNext]_vars

\* One browser on its own: the seller's settings and items, the buyer's
\* order form.
PortalNext ==
    \/ \E c \in Solo : AddItem(c)
    \/ \E c \in Solo : ToggleUpsell(c)
    \/ \E c \in Solo : SetWaitlistConfig(c)
    \/ \E c \in Solo : Submit(c)

PortalSpec == Init /\ [][PortalNext]_vars

----------------------------------------------------------------------------
(* SellerDashboard: groupedOrders *)

\* SellerDashboard.tsx holds two editions of the component: "d1" is lines
\* 1-464, "d2" lines 467-954.
DashboardVersions == {"d1", "d2"}

\* The key of a line's group: (o.orderId || 'UNKNOWN').toUpperCase() in d1
\* (line 103), o.orderId in d2 (line 556).
GroupKey(d, o) ==
    IF d = "d1"
    THEN ToUpper(IF o.orderId = "" THEN "UNKNOWN" ELSE o.orderId)
    ELSE o.orderId

\* The keys of groups in the order of their first insertion.
RECURSIVE GroupKeys(_, _)
GroupKeys(d, ords) ==
    IF ords = <<>> THEN <<>>
    ELSE LET front == GroupKeys(d, SubSeq(ords, 1, Len(ords) - 1))
             k == GroupKey(d, ords[Len(ords)])
         IN IF \E i \in DOMAIN front : front[i] = k THEN front ELSE Append(front, k)

\* itemPriceMap.get(...) || 0. The Map is built from [key, price] pairs, a
\* later item with the same key replacing an earlier one; the key is the
\* upper-cased mnemonic in d1 (lines 96, 123) and the item id in d2 (lines
\* 550, 574).
LinePrice(d, its, o) ==
    LET hits == {i \in DOMAIN its :
                    IF d = "d1"
                    THEN ToUpper(its[i].mnemonic) = ToUpper(o.mnemonic)
                    ELSE its[i].id = o.itemId}
    IN IF hits = {} THEN 0
       ELSE its[CHOOSE i \in hits : \A j \in hits : j <= i].price

RECURSIVE SumQty(_)
SumQty(lines) ==
    IF lines = <<>> THEN 0 ELSE lines[1].quantity + SumQty(Tail(lines))

RECURSIVE SumCost(_, _, _)
SumCost(d, its, lines) ==
    IF lines = <<>> THEN 0
    ELSE LinePrice(d, its, lines[1]) * lines[1].quantity + SumCost(d, its, Tail(lines))

\* Mutant: a group with a waitlisted line is waitlisted, whatever the others.
OverallStatusAnyWaitlisted(lines) ==
    IF \E i \in DOMAIN lines : lines[i].status = "waitlisted" THEN "waitlisted"
    ELSE "confirmed"

\* Lines 130-135 (d1) and 580-585 (d2).
OverallStatus(lines) ==
    LET hasConfirmed == \E i \in DOMAIN lines : lines[i].status = "confirmed"
        hasWaitlisted == \E i \in DOMAIN lines : lines[i].status = "waitlisted"
    IN IF hasConfirmed /\ hasWaitlisted THEN "mixed"
       ELSE IF hasWaitlisted THEN "waitlisted"
       ELSE "confirmed"

\* The group of key k after orders.forEach and the map of Object.values.
GroupOf(d, its, ords, k) ==
    LET lines == SelectSeq(ords, LAMBDA o : GroupKey(d, o) = k)
    IN [orderId       |-> lines[1].orderId,
        timestamp     |-> lines[1].timestamp,
        lines         |-> lines,
        totalQty      |-> SumQty(lines),
        distinctItems |-> Len(lines),
        totalCost     |-> SumCost(d, its, lines),
        overallStatus |-> OverallStatus(lines),
        hasWaitlistedLine |->
            d = "d1" /\ \E i \in DOMAIN lines : lines[i].status = "waitlisted"]

\* A timestamp new Date(...) cannot parse: getTime() is NaN.
InvalidDate == 0

\* The comparator (a, b) => time(b) - time(a) as sort reads it: NaN is read
\* as +0, so a group with an unparsable timestamp compares equal to every
\* group.
SortCompare(a, b) ==
    IF a.timestamp = InvalidDate \/ b.timestamp = InvalidDate THEN 0
    ELSE b.timestamp - a.timestamp

InsertAt(s, n, g) == SubSeq(s, 1, n) \o <<g>> \o SubSeq(s, n + 1, Len(s))

\* Array.prototype.sort by insertion, the place found by a scan from the
\* right: stable, latest first when the comparator is consistent.
RECURSIVE SortLatestFirst(_)
SortLatestFirst(gs) ==
    IF gs = <<>> THEN <<>>
    ELSE LET front == SortLatestFirst(SubSeq(gs, 1, Len(gs) - 1))
             g == gs[Len(gs)]
             stops == {i \in DOMAIN front : SortCompare(front[i], g) <= 0}
             n == IF stops = {} THEN 0 ELSE CHOOSE i \in stops : \A j \in stops : j <= i
         IN InsertAt(front, n, g)

\* The place of g in front[left+1 .. right] by binary search.
RECURSIVE BinaryPlace(_, _, _, _)
BinaryPlace(front, g, left, right) ==
    IF left >= right THEN left
    ELSE LET mid == left + ((right - left) \div 2)
         IN IF SortCompare(g, front[mid + 1]) < 0
            THEN BinaryPlace(front, g, left, mid)
            ELSE BinaryPlace(front, g, mid + 1, right)

\* Array.prototype.sort by insertion, the place found by binary search.
RECURSIVE SortBinaryInsertion(_)
SortBinaryInsertion(gs) ==
    IF gs = <<>> THEN <<>>
    ELSE LET front == SortBinaryInsertion(SubSeq(gs, 1, Len(gs) - 1))
             g == gs[Len(gs)]
         IN InsertAt(front, BinaryPlace(front, g, 0, Len(front)), g)

\* The order of sort is the engine's choice when the comparator is not
\* consistent, which it is not once a timestamp is unparsable. Two ways
\* engines sort a short array.
SortAlgorithms == {"linear", "binary"}

SortBy(alg, gs) ==
    IF alg = "linear" THEN SortLatestFirst(gs) ELSE SortBinaryInsertion(gs)

\* groupedOrders (d1 lines 99-139, d2 lines 552-589).
GroupedOrders(d, alg, its, ords) ==
    LET keys == GroupKeys(d, ords)
    IN SortBy(alg, [i \in DOMAIN keys |-> GroupOf(d, its, ords, keys[i])])

\* The dashboard renders the orders tab: groupedOrders is computed from the
\* items and orders of the browser.
RenderOrders(c) ==
    /\ ~groupedView.rendered
    /\ \E d \in DashboardVersions, alg \in SortAlgorithms :
         groupedView' = [rendered |-> TRUE, version |-> d,
                         groups |-> GroupedOrders(d, alg, items[c], orders[c])]
    /\ UNCHANGED <<serverVars, navVars, engineLog, clientVars, loadVars, pushes, gets, now, histVars>>

\* The item sets and order logs the browser reads from localStorage on mount
\* (App.tsx lines 33-41).
OrderIds == {"x", "X", ""}

StoredItemIds == {[src |-> "add", n |-> k, m |-> ""] : k \in 1..MaxItems}

StoredItems ==
    {its \in SeqUpTo([id : StoredItemIds, mnemonic : {"A", "a"}, price : {1, 2},
                      quantity : {1}, allowUpsell : {FALSE}], MaxItems) :
        \A k \in DOMAIN its : its[k].id.n = k}

StoredOrders ==
    SeqUpTo([id : {NoId}, orderId : OrderIds,
             itemId : {NoId, [src |-> "add", n |-> 1, m |-> ""]},
             mnemonic : {"A", "a"}, quantity : 1..MaxStock,
             timestamp : Timestamps, status : {"confirmed", "waitlisted"}],
            MaxLines)

ViewInit ==
    /\ scriptVersion = "v1"
    /\ emptyRangeThrows = FALSE
    /\ master = <<>>
    /\ orderSheet = <<>>
    /\ inventory = <<>>
    /\ twinOrders = <<>>
    /\ engineLog = <<>>
    /\ \E its \in StoredItems :
         items = [c \in Clients |-> IF c \in Solo THEN its ELSE <<>>]
    /\ \E ords \in StoredOrders :
         orders = [c \in Clients |-> IF c \in Solo THEN ords ELSE <<>>]
    /\ waitlistConfig = [c \in Clients |-> [maxSize |-> WaitlistDefault]]
    /\ placedScreen = [c \in Clients |-> FALSE]
    /\ isLoadingItems = [c \in Clients |-> FALSE]
    /\ hasAttemptedInitialSync = [c \in Clients |-> FALSE]
    /\ pushes = {}
    /\ gets = [c \in Clients |-> <<>>]
    /\ now = 0
    /\ held = [c \in Clients |-> NoFetch]
    /\ placed = {}
    /\ groupedView = NotRendered
    /\ webhookUrl = [c \in Clients |-> HubUrl]
    /\ activeMnemonic = [c \in Clients |-> ""]

ViewNext == \E c \in Solo : RenderOrders(c)

ViewSpec == ViewInit /\ [][ViewNext]_vars

\* handleNavigation on an order link #/order/mn: the webhook of the link's w
\* parameter, if it has one, is stored; the buyer view is shown for the
\* mnemonic in upper case; and fetchInventoryFromSheets is called if there is
\* a webhook, which returns at once unless the URL starts with http.
OpenOrderLink(c) ==
    /\ Len(gets[c]) < MaxOverlap
    /\ \E mn \in OrderMnemonics, w \in {"", HubUrl} :
         LET currentWebhook == IF IsHttp(w) THEN w ELSE webhookUrl[c] IN
         /\ webhookUrl' = [webhookUrl EXCEPT ![c] = currentWebhook]
         /\ activeMnemonic' = [activeMnemonic EXCEPT ![c] = ToUpper(mn)]
         /\ IF currentWebhook # "" /\ IsHttp(currentWebhook)
            THEN /\ isLoadingItems' = [isLoadingItems EXCEPT ![c] = TRUE]
                 /\ gets' = [gets EXCEPT ![c] = Append(@, NoFetch)]
            ELSE UNCHANGED <<isLoadingItems, gets>>
    /\ UNCHANGED <<serverVars, logVars, clientVars, hasAttemptedInitialSync,
                   pushes, now, histVars>>

\* isLoadingInventory of BuyerPortal (App.tsx line 285).
IsLoadingInventory(c) == isLoadingItems[c] \/ ~hasAttemptedInitialSync[c]

\* What BuyerPortal renders for the mnemonic it was opened for.
PortalScreen(c) ==
    LET found == FindByMnemonic(items[c], activeMnemonic[c]) # 0
    IN IF IsLoadingInventory(c) /\ ~found THEN "synchronizing"
       ELSE IF ~found /\ ~IsLoadingInventory(c) THEN "unavailable"
       ELSE IF placedScreen[c] THEN "placed"
       ELSE "form"

\* A buyer's browser, with or without a webhook stored, in front of the
\* synced ledger; the buyer opens order links.
OpenInit ==
    /\ SyncedLedger
    /\ AppStart
    /\ \E u \in WebhookUrls :
         webhookUrl = [c \in Clients |-> IF c \in Solo THEN u ELSE HubUrl]

OpenNext ==
    \/ \E c \in Solo : OpenOrderLink(c)
    \/ \E c \in Solo : DoGet(c)
    \/ \E c \in Solo : DoGetError(c)
    \/ \E c \in Solo : FetchApply(c)
    \/ \E c \in Solo : FetchFail(c)

\* The oldest fetch in flight ends: its response arrives or it rejects, by
\* the abort of its 20 s timer at the latest.
EndOldest(c) ==
    /\ FetchApply(c) \/ FetchFail(c)
    /\ gets'[c] = Tail(gets[c])

FetchEnds == \E c \in Solo : EndOldest(c)

OpenSpec == OpenInit /\ [][OpenNext]_vars /\ WF_vars(FetchEnds)

\* The buyer's portal over an item set the seller has made: items added,
\* some with a mnemonic typed in lower case by bulk add, some with the
\* upsell flag toggled on.
ShopItems ==
    {its \in SeqUpTo([id : StoredItemIds, mnemonic : OrderMnemonics, price : {1},
                      quantity : 0..MaxStock, allowUpsell : BOOLEAN], MaxItems) :
        \A k \in DOMAIN its : its[k].id.n = k}

ShopInit ==
    /\ scriptVersion = "v1"
    /\ emptyRangeThrows = FALSE
    /\ master = <<>>
    /\ orderSheet = <<>>
    /\ inventory = <<>>
    /\ twinOrders = <<>>
    /\ engineLog = <<>>
    /\ \E its \in ShopItems :
         items = [c \in Clients |-> IF c \in Solo THEN its ELSE <<>>]
    /\ orders = [c \in Clients |-> <<>>]
    /\ waitlistConfig = [c \in Clients |-> [maxSize |-> WaitlistDefault]]
    /\ placedScreen = [c \in Clients |-> FALSE]
    /\ isLoadingItems = [c \in Clients |-> FALSE]
    /\ hasAttemptedInitialSync = [c \in Clients |-> FALSE]
    /\ pushes = {}
    /\ gets = [c \in Clients |-> <<>>]
    /\ now = 0
    /\ held = [c \in Clients |-> NoFetch]
    /\ placed = {}
    /\ groupedView = NotRendered
    /\ webhookUrl = [c \in Clients |-> HubUrl]
    /\ activeMnemonic = [c \in Clients |-> ""]

ShopNext ==
    \/ \E c \in Solo : SetWaitlistConfig(c)
    \/ \E c \in Solo : Submit(c)
    \/ \E c \in Solo : Reopen(c)
    \/ \E c \in Solo : FetchFail(c)

ShopSpec == ShopInit /\ [][ShopNext]_vars

\* The same item sets with the buyer's portal and the seller's inventory tab.
DeskNext ==
    \/ \E c \in Solo : Submit(c)
    \/ \E c \in Solo : DeleteItem(c)

DeskSpec == ShopInit /\ [][DeskNext]_vars

\* Order logs of up to MaxGroups orders of one line each, with timestamps
\* that parse and timestamps that do not (a Timestamp cell of the Orders
\* sheet holds what was typed into it).
MaxGroups == 3

DatedOrders ==
    SeqUpTo([id : {NoId}, orderId : {"X", "Y", "Z"}, itemId : {NoId},
             mnemonic : {"A"}, quantity : {1},
             timestamp : Timestamps \cup {InvalidDate}, status : {"confirmed"}],
            MaxGroups)

SortInit ==
    /\ scriptVersion = "v1"
    /\ emptyRangeThrows = FALSE
    /\ master = <<>>
    /\ orderSheet = <<>>
    /\ inventory = <<>>
    /\ twinOrders = <<>>
    /\ engineLog = <<>>
    /\ items = [c \in Clients |-> <<>>]
    /\ \E ords \in DatedOrders :
         orders = [c \in Clients |-> IF c \in Solo THEN ords ELSE <<>>]
    /\ waitlistConfig = [c \in Clients |-> [maxSize |-> WaitlistDefault]]
    /\ placedScreen = [c \in Clients |-> FALSE]
    /\ isLoadingItems = [c \in Clients |-> FALSE]
    /\ hasAttemptedInitialSync = [c \in Clients |-> FALSE]
    /\ pushes = {}
    /\ gets = [c \in Clients |-> <<>>]
    /\ now = 0
    /\ held = [c \in Clients |-> NoFetch]
    /\ placed = {}
    /\ groupedView = NotRendered
    /\ webhookUrl = [c \in Clients |-> HubUrl]
    /\ activeMnemonic = [c \in Clients |-> ""]

SortSpec == SortInit /\ [][ViewNext]_vars

----------------------------------------------------------------------------
(* The engine on arbitrary inputs *)

\* The Status cell doPost writes for a new row: o.AppStatus || "Processing"
\* in edition 1 (line 75), "Processing" in edition 2 (line 215).
PostedStatuses(v) ==
    IF v = "v1" THEN {"confirmed", "waitlisted", "Processing"} ELSE {"Processing"}

OrderRows(v) ==
    [OrderID : {1}, Timestamp : Timestamps, Mnemonic : OrderMnemonics,
     Quantity : 1..MaxStock, Status : PostedStatuses(v)]

EngineInit ==
    /\ scriptVersion \in Versions
    /\ master \in SeqUpTo(MasterRows, MaxItems)
    /\ orderSheet \in SeqUpTo(OrderRows(scriptVersion), MaxLines)
    /\ inventory = <<>>
    /\ emptyRangeThrows \in BOOLEAN
    /\ engineLog = <<>>
    /\ twinOrders = orderSheet
    /\ ClientsStart

EngineRun ==
    /\ Len(engineLog) < MaxRuns
    /\ LET res == RunInventoryEngine(scriptVersion, master, orderSheet,
                                     inventory, emptyRangeThrows)
       IN /\ orderSheet' = res.orders
          /\ inventory' = res.inventory
          /\ engineLog' = Append(engineLog,
                            [outcome   |-> res.outcome,
                             input     |-> orderSheet,
                             orders    |-> res.orders,
                             inventory |-> res.inventory])
    /\ UNCHANGED <<scriptVersion, master, emptyRangeThrows, twinOrders>>
    /\ UNCHANGED <<clientVars, loadVars, histVars, navVars, pushes, gets, now, groupedView>>

EngineNext == EngineRun

EngineSpec == EngineInit /\ [][EngineNext]_vars

----------------------------------------------------------------------------
(* Claims about the engine, checked under EngineSpec *)

RunsDone == Len(engineLog)

LastRun == engineLog[Len(engineLog)]

\* The last engine run went through the allocation and wrote both sheets.
Replayed == RunsDone > 0 /\ LastRun.outcome = "done"

RECURSIVE ConfirmedQty(_, _)
ConfirmedQty(rows, m) ==
    IF rows = <<>> THEN 0
    ELSE ConfirmedQty(SubSeq(rows, 1, Len(rows) - 1), m)
         + (IF rows[Len(rows)].Mnemonic = m /\ rows[Len(rows)].Status = "Confirmed"
            THEN rows[Len(rows)].Quantity ELSE 0)

MasterMnemonics == {master[i].Mnemonic : i \in DOMAIN master}

\* The stock of mnemonic m that is left when row k is reached.
RemainingBefore(k, m) ==
    Allocate(scriptVersion, master, orderSheet, k - 1).stock[m].remaining

RemainingAfter(k, m) ==
    Allocate(scriptVersion, master, orderSheet, k).stock[m].remaining

\* C1: no oversell. After a replay every item has one Inventory row; the
\* quantities of the item's confirmed lines add up to at most its initial
\* quantity, and the balance is the initial quantity less that sum, never
\* negative.
C1_NoOversell ==
    Replayed =>
        /\ {inventory[i].Mnemonic : i \in DOMAIN inventory} = MasterMnemonics
        /\ \A i \in DOMAIN inventory :
             LET sold == ConfirmedQty(orderSheet, inventory[i].Mnemonic)
             IN /\ sold <= inventory[i].InitialQuantity
                /\ inventory[i].ConfirmedSold = sold
                /\ inventory[i].AvailableBalance = inventory[i].InitialQuantity - sold
                /\ inventory[i].AvailableBalance >= 0

\* A replay in which an item is sold out and a further line for it had to be
\* waitlisted.
C1_Witness ==
    /\ Replayed
    /\ \E i \in DOMAIN inventory :
         /\ inventory[i].InitialQuantity > 0
         /\ inventory[i].ConfirmedSold = inventory[i].InitialQuantity
         /\ \E k \in DOMAIN orderSheet :
              /\ orderSheet[k].Mnemonic = inventory[i].Mnemonic
              /\ orderSheet[k].Status = "Waitlisted"

\* C2: FIFO by timestamp. Of two lines of one item that each fit the stock
\* left when the first of them is reached, but not both, the line with the
\* earlier timestamp is confirmed and the later one waitlisted, wherever the
\* two stand in the order log.
C2_FifoByTimestamp ==
    Replayed =>
        \A i, j \in DOMAIN orderSheet :
            LET a == orderSheet[i]
                b == orderSheet[j]
                first == IF i < j THEN i ELSE j
            IN ( /\ i # j
                 /\ a.Mnemonic = b.Mnemonic
                 /\ a.Mnemonic \in MasterMnemonics
                 /\ a.Timestamp < b.Timestamp
                 /\ a.Quantity <= RemainingBefore(first, a.Mnemonic)
                 /\ b.Quantity <= RemainingBefore(first, a.Mnemonic)
                 /\ a.Quantity + b.Quantity > RemainingBefore(first, a.Mnemonic) )
               => (a.Status = "Confirmed" /\ b.Status = "Waitlisted")

\* C3: conservation. After every replay, for every item the Inventory row
\* has ConfirmedSold + AvailableBalance = InitialQuantity.
C3_Conservation ==
    Replayed =>
        \A i \in DOMAIN inventory :
            inventory[i].ConfirmedSold + inventory[i].AvailableBalance
                = inventory[i].InitialQuantity

\* A replay that confirmed a line and so moved stock from balance to sold.
C3_Witness ==
    /\ Replayed
    /\ \E i \in DOMAIN inventory :
         /\ inventory[i].ConfirmedSold > 0
         /\ inventory[i].AvailableBalance > 0

\* C4: unknown item. After an engine run every line whose mnemonic is no
\* item of the ledger has status Waitlisted, and it has changed no item's
\* figures.
C4_UnknownItemWaitlisted ==
    RunsDone > 0 =>
        \A k \in DOMAIN orderSheet :
            orderSheet[k].Mnemonic \notin MasterMnemonics =>
                /\ orderSheet[k].Status = "Waitlisted"
                /\ Allocate(scriptVersion, master, orderSheet, k).stock
                     = Allocate(scriptVersion, master, orderSheet, k - 1).stock

IsConfirmed(s) == s \in {"Confirmed", "confirmed"}
IsWaitlisted(s) == s \in {"Waitlisted", "waitlisted"}

\* C5: atomic line allocation. After an engine run every line is either
\* confirmed or waitlisted, and the run lowered the remaining stock of the
\* line's item by the whole quantity (confirmed) or by nothing (waitlisted).
C5_AtomicLine ==
    RunsDone > 0 =>
        \A k \in DOMAIN orderSheet :
            LET o == orderSheet[k]
                dec == IF o.Mnemonic \in MasterMnemonics
                       THEN RemainingBefore(k, o.Mnemonic) - RemainingAfter(k, o.Mnemonic)
                       ELSE 0
            IN \/ IsConfirmed(o.Status) /\ dec = o.Quantity
               \/ IsWaitlisted(o.Status) /\ dec = 0

\* C6: idempotent replay. A second engine run on the same ledger leaves
\* every line's status and every item's sold / remaining / waitlisted demand
\* as the first run left them.
C6_IdempotentReplay ==
    RunsDone >= 2 =>
        /\ engineLog[2].outcome = engineLog[1].outcome
        /\ engineLog[2].orders = engineLog[1].orders
        /\ engineLog[2].inventory = engineLog[1].inventory

\* Two replays of a log with a confirmed and a waitlisted line.
C6_Witness ==
    /\ RunsDone >= 2
    /\ LastRun.outcome = "done"
    /\ \E i, j \in DOMAIN orderSheet :
         orderSheet[i].Status = "Confirmed" /\ orderSheet[j].Status = "Waitlisted"

----------------------------------------------------------------------------
(* Claims about syncing, checked under Spec and RaceSpec *)

\* The POST a browser sends when it holds the ledger as doGet delivers it
\* now and saves it again after the edit of a display field.
ResyncPayload ==
    LET snap == DoGetSnapshot(scriptVersion, inventory, orderSheet)
    IN Payload(FetchedItems(snap), FetchedOrders(snap))

StockFields(inv) ==
    [i \in DOMAIN inv |-> [Mnemonic |-> inv[i].Mnemonic,
                           InitialQuantity |-> inv[i].InitialQuantity]]

IsResync(p) ==
    /\ p.Orders = ResyncPayload.Orders
    /\ StockFields(p.Inventory) = StockFields(ResyncPayload.Inventory)

\* The step is doPost of p.
Handles(p) ==
    /\ p \in pushes
    /\ pushes' = pushes \ {p}
    /\ master' = p.Inventory

\* C7: re-running a sync is safe. When doPost handles the POST of a browser
\* that fetched the ledger and saved it again with no new line, every item
\* keeps its initial quantity and its balance and every line its status.
C7_ResyncIsSafe ==
    [][\A p \in pushes :
          (IsResync(p) /\ Handles(p)) =>
              /\ inventory' = inventory
              /\ orderSheet' = orderSheet
              /\ \A i \in DOMAIN inventory :
                    \E j \in DOMAIN master' :
                        /\ master'[j].Mnemonic = inventory[i].Mnemonic
                        /\ master'[j].InitialQuantity = inventory[i].InitialQuantity]_vars

RowsOf(r) ==
    {k \in DOMAIN orderSheet :
        orderSheet[k].OrderID = r.orderId /\ orderSheet[k].Mnemonic = r.mnemonic}

\* Two buyers who held the same snapshot, with one unit of the item left,
\* and ordered that unit each.
Racing(r1, r2) ==
    /\ r1.client # r2.client
    /\ r1.snap.has /\ r1.snap = r2.snap
    /\ r1.idx = 1 /\ r2.idx = 1
    /\ r1.mnemonic = r2.mnemonic
    /\ r1.seen = 1 /\ r2.seen = 1
    /\ r1.quantity = 1 /\ r2.quantity = 1

\* C8: two buyers racing on the last unit. Once the POSTs of both have been
\* handled, one of the two lines is confirmed and the other waitlisted.
C8_RaceOneWinner ==
    \A r1, r2 \in placed :
        (Racing(r1, r2) /\ RowsOf(r1) # {} /\ RowsOf(r2) # {}) =>
            \E w, l \in {r1, r2} :
                /\ w # l
                /\ \A k \in RowsOf(w) : orderSheet[k].Status = "Confirmed"
                /\ \A k \in RowsOf(l) : orderSheet[k].Status = "Waitlisted"

\* The balance or quantity cell of a delivered Inventory row.
DeliveredBalance(row) == RawField(row, "AvailableBalance", "quantity")

DeliveredStatus(row) == RawField(row, "Status", "AppStatus")

C10_StatusDerived ==
    /\ Len(twinOrders) = Len(orderSheet)
    /\ \A k \in DOMAIN orderSheet : orderSheet[k].Status = twinOrders[k].Status

----------------------------------------------------------------------------
(* Claims about fetching, checked under FetchSpec *)

\* A call of fetchInventoryFromSheets ends without a snapshot: the fetch
\* rejected or the body was no snapshot (FetchFail), or the body was the
\* error reply of doGet.
FailedFetch(c) ==
    \/ FetchFail(c)
    \/ \E i \in DOMAIN gets[c] :
         /\ gets[c][i].has
         /\ gets[c][i].err
         /\ gets' = [gets EXCEPT ![c] = Supersede(@, i)]
         /\ isLoadingItems'[c] = FALSE

\* C11: a failed snapshot fetch is free of side effects on the data. When a
\* call of fetchInventoryFromSheets fails, the items and the orders of the
\* browser (state and stored copy) are what they were before.
C11_FetchFailureKeepsData ==
    [][\A c \in Clients :
          FailedFetch(c) => (items'[c] = items[c] /\ orders'[c] = orders[c])]_vars

\* C12: no stale over fresh. The state of a browser is never replaced by the
\* result of a fetch after the result of a fetch that was started later.
C12_NoStaleOverFresh ==
    \A c \in Clients : ~held[c].superseded

----------------------------------------------------------------------------
(* Claims about the order form, checked under PortalSpec *)

\* C13: waitlist admission with zero capacity. While maxSize is 0 no submit
\* of the order form appends a line with status waitlisted.
C13_ZeroCapacityNeverQueues ==
    [][\A c \in Clients :
          (waitlistConfig[c].maxSize = 0 /\ Len(orders'[c]) > Len(orders[c])) =>
              \A k \in DOMAIN orders'[c] :
                  k > Len(orders[c]) => orders'[c][k].status # "waitlisted"]_vars

----------------------------------------------------------------------------
(* Claims about the item set and the order log, checked under Spec *)

\* The browser's state is the snapshot it was last replaced by.
Holds(c) == held[c].has

DeliveredMnemonic(row) == RawField(row, "Mnemonic", "mnemonic")

C16_MnemonicUnique ==
    /\ \A c \in Clients : \A i, j \in DOMAIN items[c] :
          i # j => ToUpper(items[c][i].mnemonic) # ToUpper(items[c][j].mnemonic)
    /\ \A i, j \in DOMAIN master :
          i # j => ToUpper(master[i].Mnemonic) # ToUpper(master[j].Mnemonic)

\* Every order of the POST is in the Orders sheet already.
AllLogged(p) ==
    \A i \in DOMAIN p.Orders :
        \E k \in DOMAIN orderSheet : orderSheet[k].OrderID = p.Orders[i].OrderID

\* The step replaces the state of browser c by a fetched snapshot.
Fetched(c) == held'[c].has /\ held'[c] # held[c]

----------------------------------------------------------------------------
(* Claims about lookups by mnemonic, checked under EngineSpec *)

\* The quantities of the rows whose mnemonic is m, compared without case.
RECURSIVE DemandFor(_, _)
DemandFor(rows, m) ==
    IF rows = <<>> THEN 0
    ELSE (IF ToUpper(rows[1].Mnemonic) = ToUpper(m) THEN rows[1].Quantity ELSE 0)
         + DemandFor(Tail(rows), m)

\* C15: case-insensitive mnemonic lookup. After a replay every order row
\* whose mnemonic is an item's mnemonic but for the case of its letters has
\* been allocated against that item: the item's sold and waitlisted
\* quantities add up to the quantities of those rows.
C15_CaseInsensitiveLookup ==
    Replayed =>
        \A i \in DOMAIN inventory :
            inventory[i].ConfirmedSold + inventory[i].WaitlistDemand
                = DemandFor(orderSheet, inventory[i].Mnemonic)

----------------------------------------------------------------------------
(* Claims about the grouped view, checked under ViewSpec *)

Groups == groupedView.groups

ViewOrders == orders[CHOOSE c \in Solo : TRUE]

ViewItems == items[CHOOSE c \in Solo : TRUE]

AllLines(g, P(_)) == \A i \in DOMAIN g.lines : P(g.lines[i])

\* C18: group status derivation. Every group of the view is confirmed iff
\* each of its lines is confirmed, waitlisted iff each is waitlisted, and
\* mixed otherwise, its lines being lines of the order log as it is.
C18_GroupStatus ==
    groupedView.rendered =>
        \A n \in DOMAIN Groups :
            LET g == Groups[n]
                allConfirmed == AllLines(g, LAMBDA l : l.status = "confirmed")
                allWaitlisted == AllLines(g, LAMBDA l : l.status = "waitlisted")
            IN /\ g.lines # <<>>
               /\ AllLines(g, LAMBDA l : \E k \in DOMAIN ViewOrders : ViewOrders[k] = l)
               /\ (g.overallStatus = "confirmed") <=> allConfirmed
               /\ (g.overallStatus = "waitlisted") <=> allWaitlisted
               /\ (g.overallStatus = "mixed") <=> (~allConfirmed /\ ~allWaitlisted)

\* The view shows a group with a confirmed and a waitlisted line.
C18_Witness ==
    /\ groupedView.rendered
    /\ \E n \in DOMAIN Groups :
         /\ Groups[n].overallStatus = "mixed"
         /\ Len(Groups[n].lines) = 2

\* The orderId of a line as the grouping is to compare it.
GroupId(o) == ToUpper(IF o.orderId = "" THEN "UNKNOWN" ELSE o.orderId)

\* C19: grouping. The lines of one group have one orderId, compared without
\* case and an empty orderId read as UNKNOWN; the lines of two groups have
\* different ones; and every line of the order log is in a group, once.
C19_Grouping ==
    groupedView.rendered =>
        /\ \A n \in DOMAIN Groups :
             \A i, j \in DOMAIN Groups[n].lines :
                 GroupId(Groups[n].lines[i]) = GroupId(Groups[n].lines[j])
        /\ \A n, m \in DOMAIN Groups :
             n # m => GroupId(Groups[n].lines[1]) # GroupId(Groups[m].lines[1])
        /\ \A id \in {GroupId(ViewOrders[k]) : k \in DOMAIN ViewOrders} :
             \E n \in DOMAIN Groups :
                 /\ GroupId(Groups[n].lines[1]) = id
                 /\ Groups[n].lines = SelectSeq(ViewOrders, LAMBDA o : GroupId(o) = id)

\* The prices a line can resolve to: those of the items with the line's
\* mnemonic, compared without case; 0 when there is none.
ResolvedPrices(l) ==
    LET hits == {k \in DOMAIN ViewItems : ToUpper(ViewItems[k].mnemonic) = ToUpper(l.mnemonic)}
    IN IF hits = {} THEN {0} ELSE {ViewItems[k].price : k \in hits}

RECURSIVE Costs(_)
Costs(lines) ==
    IF lines = <<>> THEN {0}
    ELSE {p * lines[1].quantity + rest : p \in ResolvedPrices(lines[1]), rest \in Costs(Tail(lines))}

\* C20: group totals. For every group totalQty is the sum of the quantities
\* of its lines and totalCost the sum of quantity times the price of the item
\* the line's mnemonic resolves to, a line that resolves to no item adding 0.
C20_GroupTotals ==
    groupedView.rendered =>
        \A n \in DOMAIN Groups :
            /\ Groups[n].totalQty = SumQty(Groups[n].lines)
            /\ Groups[n].totalCost \in Costs(Groups[n].lines)

----------------------------------------------------------------------------
(* Claims about the order of the grouped view, checked under SortSpec *)

Parses(g) == g.timestamp # InvalidDate

\* The place of a group's first line in the order log: its insertion order.
Inserted(g) ==
    CHOOSE k \in DOMAIN ViewOrders :
        /\ ViewOrders[k].orderId = g.orderId
        /\ \A j \in DOMAIN ViewOrders : ViewOrders[j].orderId = g.orderId => k <= j

\* C21: display ordering. Of two groups whose timestamps parse and differ,
\* the later one is listed first; of two groups whose timestamps are equal,
\* or both unparsable, the one inserted first is listed first; and every
\* group is listed.
C21_DisplayOrdering ==
    groupedView.rendered =>
        /\ {Groups[n].orderId : n \in DOMAIN Groups}
             = {ViewOrders[k].orderId : k \in DOMAIN ViewOrders}
        /\ \A i, j \in DOMAIN Groups :
             i < j =>
                /\ (Parses(Groups[i]) /\ Parses(Groups[j]))
                      => Groups[i].timestamp >= Groups[j].timestamp
                /\ (Groups[i].timestamp = Groups[j].timestamp)
                      => Inserted(Groups[i]) < Inserted(Groups[j])

----------------------------------------------------------------------------
(* Claims about the buyer's portal, checked under ShopSpec *)

\* Item k of browser c qualifies as an extra for the portal of mnemonic mn.
Qualifies(c, k, mn) ==
    /\ items[c][k].allowUpsell = TRUE
    /\ ToUpper(items[c][k].mnemonic) # ToUpper(mn)
    /\ ~(items[c][k].quantity <= 0 /\ waitlistConfig[c].maxSize <= 0)

\* The lines a step appends to the order log of browser c.
NewLines(c) == SubSeq(orders'[c], Len(orders[c]) + 1, Len(orders'[c]))

Places(c) == Len(orders'[c]) > Len(orders[c])

\* The places in the items of browser c of the item a line was placed for.
ItemsOf(c, l) == {i \in DOMAIN items[c] : items[c][i].id = l.itemId}

\* C22: upsell candidate selection. An item is offered as an extra iff its
\* allowUpsell flag is set, its mnemonic is not the one viewed but for case,
\* and it is in stock or the waitlist has room; and the extra lines of an
\* order are lines of items that were offered.
C22_UpsellSelection ==
    /\ [](\A c \in Clients, mn \in OrderMnemonics :
            \A k \in DOMAIN items[c] : (k \in UpsellItems(c, mn)) <=> Qualifies(c, k, mn))
    /\ [][\A c \in Clients :
            Places(c) =>
                \A n \in 2..Len(NewLines(c)) :
                    \E k \in ItemsOf(c, NewLines(c)[n]) :
                        Qualifies(c, k, NewLines(c)[1].mnemonic)]_vars

\* An order with an extra line has been placed while an item with the flag
\* set was not offered: it has the mnemonic viewed.
C22_Witness ==
    \E c \in Clients :
        /\ \E r \in placed : r.client = c /\ r.idx = 2
        /\ \E k \in DOMAIN items[c], mn \in OrderMnemonics :
             items[c][k].allowUpsell /\ ~Qualifies(c, k, mn)

\* C25: local fast path decision. A placed line is confirmed iff the
\* quantity its item had at submit is at least the line's quantity, and
\* waitlisted otherwise; a confirmed line lowers its item's quantity by the
\* line's quantity.
C25_LocalDecision ==
    [][\A c \in Clients :
          Places(c) =>
              \A n \in DOMAIN NewLines(c) :
                  LET l == NewLines(c)[n] IN
                  /\ ItemsOf(c, l) # {}
                  /\ \A i \in ItemsOf(c, l) :
                       /\ (l.status = "confirmed") <=> (items[c][i].quantity >= l.quantity)
                       /\ (l.status = "waitlisted") <=> (items[c][i].quantity < l.quantity)
                       /\ (l.status = "confirmed")
                             => items'[c][i].quantity = items[c][i].quantity - l.quantity]_vars

\* One order has been placed with a confirmed and a waitlisted line.
C25_Witness ==
    \E r1, r2 \in placed :
        /\ r1.orderId = r2.orderId
        /\ r1.status = "confirmed" /\ r1.seen >= r1.quantity
        /\ r2.status = "waitlisted" /\ r2.seen < r2.quantity

\* C26: atomic line allocation on the local path. A line placed as
\* waitlisted leaves the quantity of its item as it was.
C26_LocalAtomicLine ==
    [][\A c \in Clients :
          Places(c) =>
              \A n \in DOMAIN NewLines(c) :
                  NewLines(c)[n].status = "waitlisted" =>
                      \A i \in ItemsOf(c, NewLines(c)[n]) :
                          items'[c][i].quantity = items[c][i].quantity]_vars

\* C30: local balance never negative. Every item of every browser has a
\* quantity of 0 or more.
C30_LocalBalanceNotNegative ==
    \A c \in Clients : \A k \in DOMAIN items[c] : items[c][k].quantity >= 0

\* A line was placed for more than its item had, and an upsell line with it.
C30_Witness ==
    \E r1, r2 \in placed :
        /\ r1.orderId = r2.orderId /\ r1.idx = 1 /\ r2.idx = 2
        /\ \E r \in {r1, r2} : r.seen > 0 /\ r.quantity > r.seen

----------------------------------------------------------------------------
(* Claims about removing an item, checked under DeskSpec *)

\* The step is a deleteItem of browser c: an item set with fewer items is
\* saved.
Deletes(c) == now' = now + 1 /\ Len(items'[c]) < Len(items[c])

\* C23: removing an item deletes that item and no other, leaves the order
\* log as it is, and the lines of the removed item's mnemonic then resolve to
\* no item: their price in the grouped view is 0.
C23_RemoveItem ==
    [][\A c \in Clients :
          Deletes(c) =>
              \E k \in DOMAIN items[c] :
                  /\ items'[c] = RemoveAt(items[c], k)
                  /\ orders'[c] = orders[c]
                  /\ \A n \in DOMAIN orders'[c] :
                       ToUpper(orders'[c][n].mnemonic) = ToUpper(items[c][k].mnemonic)
                          => \A d \in DashboardVersions :
                                LinePrice(d, items'[c], orders'[c][n]) = 0]_vars

----------------------------------------------------------------------------
(* Claims about opening an order link and about fetches, checked under OpenSpec *)

Opened(c) == activeMnemonic[c] # ""

\* C24: not-found degrades. When the portal is open for a mnemonic that no
\* item has, it comes to show the item-unavailable screen (or the item is
\* found after all).
C24_NotFoundDegrades ==
    \A c \in Clients :
        (Opened(c) /\ PortalScreen(c) = "synchronizing")
            ~> (PortalScreen(c) \in {"unavailable", "form"})

\* The step ends a fetch of browser c.
EndsFetch(c) == Len(gets'[c]) < Len(gets[c])

\* The step ends one of the i oldest fetches of browser c.
EndsAmongOldest(c, i) ==
    \E j \in 1..i :
        /\ j <= Len(gets[c])
        /\ gets'[c] \in {RemoveAt(gets[c], j), Supersede(gets[c], j)}

----------------------------------------------------------------------------
(* Claims about a placed order and the ledger, checked under FetchSpec *)

\* One order has been placed, by one browser, and every POST has been handled.
OneOrderPushed ==
    /\ placed # {}
    /\ \A r1, r2 \in placed : r1.orderId = r2.orderId /\ r1.client = r2.client
    /\ pushes = {}

\* The rows of the Orders sheet of a placed line.
RowsOfLine(r) ==
    {k \in DOMAIN orderSheet :
        orderSheet[k].OrderID = r.orderId /\ orderSheet[k].Mnemonic = r.mnemonic}

\* C28: single-client agreement. When one order has been placed and its POST
\* handled, each of its lines is in the Orders sheet with the status the
\* browser gave it at placement.
C28_SingleClientAgreement ==
    OneOrderPushed =>
        \A r \in placed :
            /\ RowsOfLine(r) # {}
            /\ \A k \in RowsOfLine(r) : MapStatus(orderSheet[k].Status) = r.status

\* C29: a locally placed order is never lost. Every line a browser has placed
\* is in that browser's order log.
C29_PlacedOrderKept ==
    \A r \in placed :
        \E k \in DOMAIN orders[r.client] :
            /\ orders[r.client][k].orderId = r.orderId
            /\ orders[r.client][k].mnemonic = ToUpper(r.mnemonic)

====
